---- MODULE Spec2Model ----
(***************************************************************************)
(* A model of the Dropbox MCP server (src/src/index.ts): the token store,  *)
(* the HTTP helper makeRequest, the OAuth flows, the three Dropbox         *)
(* operations and the call-tool handler.                                   *)
(*                                                                         *)
(* Strings are sequences of UTF-16 code units (0..65535), as in            *)
(* JavaScript.  An absent value (undefined / null) is the sequence None.   *)
(***************************************************************************)
EXTENDS Integers, Sequences, FiniteSets, TLC

\* ------------------------------------------------------------------------
\* Bounds of the model
\* ------------------------------------------------------------------------
\* longest file / folder path drawn as an input
MaxPathLen == 2
\* number of tool invocations the transport delivers
MaxCalls == 2
\* most data chunks one response is followed through
MaxChunks == 2
\* the clock ticks that make up the 30 seconds of req.setTimeout
TimeoutTicks == 3

\* ------------------------------------------------------------------------
\* Strings
\* ------------------------------------------------------------------------
\* undefined / null / a missing file: no code unit is negative
None == <<-1>>

\* JavaScript truthiness of a string | undefined value: `!value` holds for
\* undefined, null and the empty string only
Truthy(s) == s # None /\ s # <<>>

\* the code units String.prototype.trim removes: WhiteSpace and LineTerminator
IsJsWhiteSpace(c) ==
    \/ c \in {9, 10, 11, 12, 13, 32, 160, 5760, 8232, 8233, 8239, 8287, 12288, 65279}
    \/ (c >= 8192 /\ c <= 8202)

RECURSIVE TrimStart(_)
TrimStart(s) ==
    IF s = <<>> THEN <<>>
    ELSE IF IsJsWhiteSpace(Head(s)) THEN TrimStart(Tail(s))
    ELSE s

RECURSIVE TrimEnd(_)
TrimEnd(s) ==
    IF s = <<>> THEN <<>>
    ELSE IF IsJsWhiteSpace(s[Len(s)]) THEN TrimEnd(SubSeq(s, 1, Len(s) - 1))
    ELSE s

\* String.prototype.trim
Trim(s) == TrimEnd(TrimStart(s))

\* one lower-case hexadecimal digit, as Number.prototype.toString(16) writes it
HexDigit(d) == IF d < 10 THEN 48 + d ELSE 87 + d

\* "\\u" + ("0000" + c.toString(16)).slice(-4)
UEscape(c) ==
    <<92, 117, HexDigit(c \div 4096), HexDigit((c \div 256) % 16),
      HexDigit((c \div 16) % 16), HexDigit(c % 16)>>

IsHighSurrogate(c) == c >= 55296 /\ c <= 56319
IsLowSurrogate(c) == c >= 56320 /\ c <= 57343

\* ------------------------------------------------------------------------
\* JSON text: JSON.stringify of a string, escapeNonAscii, JSON.parse
\* ------------------------------------------------------------------------
\* the escape JSON.stringify writes for one code unit that is not part of a
\* surrogate pair (QuoteJSONString): short escapes for \b \t \n \f \r, a
\* backslash before " and \, \u00xx for the other control characters, and
\* \udxxx for a lone surrogate (well-formed JSON.stringify)
QuoteUnit(c) ==
    CASE c = 8 -> <<92, 98>>
      [] c = 9 -> <<92, 116>>
      [] c = 10 -> <<92, 110>>
      [] c = 12 -> <<92, 102>>
      [] c = 13 -> <<92, 114>>
      [] c = 34 -> <<92, 34>>
      [] c = 92 -> <<92, 92>>
      [] OTHER -> IF c < 32 \/ IsHighSurrogate(c) \/ IsLowSurrogate(c)
                  THEN UEscape(c)
                  ELSE <<c>>

RECURSIVE QuoteFrom(_, _)
QuoteFrom(s, i) ==
    IF i > Len(s) THEN <<>>
    ELSE IF IsHighSurrogate(s[i]) /\ i < Len(s) /\ IsLowSurrogate(s[i + 1])
    THEN <<s[i], s[i + 1]>> \o QuoteFrom(s, i + 2)
    ELSE QuoteUnit(s[i]) \o QuoteFrom(s, i + 1)

\* JSON.stringify(s) for a string s, the quotes included
StringifyString(s) == <<34>> \o QuoteFrom(s, 1) \o <<34>>

\* a slip in the character class: nothing is replaced
escapeNonAscii_none(str) ==
    [i \in 1..Len(str) |-> str[i]]

\* str.replace(/[\u007f-\uffff]/g, c => "\\u" + hex4(c)): every code unit
\* from DEL upwards is replaced, one code unit at a time
RECURSIVE escapeNonAscii(_)
escapeNonAscii(str) ==
    IF str = <<>> THEN <<>>
    ELSE (IF Head(str) >= 127 THEN UEscape(Head(str)) ELSE <<Head(str)>>)
         \o escapeNonAscii(Tail(str))

\* JavaScript values: <<tag, payload>> with the payload a sequence.
\*   <<"str", code units>>      a string
\*   <<"num", literal text>>    a number, by the text of its JSON literal
\*   <<"lit", name>>            true, false or null, by name
\*   <<"obj", <<key, value>>*>> an object, its members in order
\*   <<"arr", values>>          an array
\*   <<"undef", <<>>>>          undefined
JsStr(s) == <<"str", s>>
\* a string the program writes out literally, kept as its text
JsText(s) == <<"text", s>>
JsUndefined == <<"undef", <<>>>>
JsTrue == <<"lit", <<116, 114, 117, 101>>>>
JsFalse == <<"lit", <<102, 97, 108, 115, 101>>>>
JsNull == <<"lit", <<110, 117, 108, 108>>>>

ParseFail == [ok |-> FALSE, val |-> JsUndefined, next |-> 0]
ParseOk(v, n) == [ok |-> TRUE, val |-> v, next |-> n]

IsJsonWs(c) == c \in {9, 10, 13, 32}
IsDigit(c) == c >= 48 /\ c <= 57

RECURSIVE SkipWs(_, _)
SkipWs(s, i) ==
    IF i <= Len(s) /\ IsJsonWs(s[i]) THEN SkipWs(s, i + 1) ELSE i

HexVal(c) ==
    IF IsDigit(c) THEN c - 48
    ELSE IF c >= 97 /\ c <= 102 THEN c - 87
    ELSE IF c >= 65 /\ c <= 70 THEN c - 55
    ELSE -1

\* the code unit a two-character escape stands for, -1 when it is none
SimpleEscape(e) ==
    CASE e = 34 -> 34
      [] e = 92 -> 92
      [] e = 47 -> 47
      [] e = 98 -> 8
      [] e = 102 -> 12
      [] e = 110 -> 10
      [] e = 114 -> 13
      [] e = 116 -> 9
      [] OTHER -> -1

\* the characters of a JSON string from position i (after the opening quote)
RECURSIVE ParseChars(_, _, _)
ParseChars(s, i, acc) ==
    IF i > Len(s) THEN ParseFail
    ELSE IF s[i] = 34 THEN ParseOk(JsStr(acc), i + 1)
    ELSE IF s[i] < 32 THEN ParseFail
    ELSE IF s[i] # 92 THEN ParseChars(s, i + 1, Append(acc, s[i]))
    ELSE IF i + 1 > Len(s) THEN ParseFail
    ELSE IF SimpleEscape(s[i + 1]) >= 0
    THEN ParseChars(s, i + 2, Append(acc, SimpleEscape(s[i + 1])))
    ELSE IF s[i + 1] = 117 /\ i + 5 <= Len(s)
            /\ \A k \in 2..5 : HexVal(s[i + k]) >= 0
    THEN ParseChars(s, i + 6,
             Append(acc, HexVal(s[i + 2]) * 4096 + HexVal(s[i + 3]) * 256
                         + HexVal(s[i + 4]) * 16 + HexVal(s[i + 5])))
    ELSE ParseFail

RECURSIVE DigitsEnd(_, _)
DigitsEnd(s, i) ==
    IF i <= Len(s) /\ IsDigit(s[i]) THEN DigitsEnd(s, i + 1) ELSE i

\* a JSON number from position i: -? (0 | [1-9][0-9]*) (. [0-9]+)? ([eE] [+-]? [0-9]+)?
ParseNumber(s, i) ==
    LET a == IF i <= Len(s) /\ s[i] = 45 THEN i + 1 ELSE i
        b == IF a <= Len(s) /\ s[a] = 48 THEN a + 1 ELSE DigitsEnd(s, a)
        f == IF b <= Len(s) /\ s[b] = 46 THEN DigitsEnd(s, b + 1) ELSE b
        fracOk == f = b \/ f > b + 1
        e1 == IF f <= Len(s) /\ s[f] \in {69, 101} THEN f + 1 ELSE f
        e2 == IF e1 > f /\ e1 <= Len(s) /\ s[e1] \in {43, 45} THEN e1 + 1 ELSE e1
        e3 == IF e1 > f THEN DigitsEnd(s, e2) ELSE f
        expOk == e1 = f \/ e3 > e2
    IN  IF b > a /\ fracOk /\ expOk
        THEN ParseOk(<<"num", SubSeq(s, i, e3 - 1)>>, e3)
        ELSE ParseFail

StartsWith(s, i, w) ==
    i + Len(w) - 1 <= Len(s) /\ SubSeq(s, i, i + Len(w) - 1) = w

RECURSIVE ParseValue(_, _), ParseMembers(_, _, _), ParseElements(_, _, _)
\* a JSON value from position i, leading white space skipped
ParseValue(s, i) ==
    LET j == SkipWs(s, i) IN
    IF j > Len(s) THEN ParseFail
    ELSE IF s[j] = 34 THEN ParseChars(s, j + 1, <<>>)
    ELSE IF s[j] = 123 THEN
        (IF SkipWs(s, j + 1) <= Len(s) /\ s[SkipWs(s, j + 1)] = 125
         THEN ParseOk(<<"obj", <<>>>>, SkipWs(s, j + 1) + 1)
         ELSE ParseMembers(s, j + 1, <<>>))
    ELSE IF s[j] = 91 THEN
        (IF SkipWs(s, j + 1) <= Len(s) /\ s[SkipWs(s, j + 1)] = 93
         THEN ParseOk(<<"arr", <<>>>>, SkipWs(s, j + 1) + 1)
         ELSE ParseElements(s, j + 1, <<>>))
    ELSE IF StartsWith(s, j, JsTrue[2]) THEN ParseOk(JsTrue, j + 4)
    ELSE IF StartsWith(s, j, JsFalse[2]) THEN ParseOk(JsFalse, j + 5)
    ELSE IF StartsWith(s, j, JsNull[2]) THEN ParseOk(JsNull, j + 4)
    ELSE ParseNumber(s, j)

\* the members of an object from position i: "key" : value (, | })
ParseMembers(s, i, acc) ==
    LET j == SkipWs(s, i)
        k == IF j <= Len(s) /\ s[j] = 34 THEN ParseChars(s, j + 1, <<>>) ELSE ParseFail
        c == IF k.ok THEN SkipWs(s, k.next) ELSE 0
        v == IF k.ok /\ c <= Len(s) /\ s[c] = 58 THEN ParseValue(s, c + 1) ELSE ParseFail
        d == IF v.ok THEN SkipWs(s, v.next) ELSE 0
        all == Append(acc, <<k.val[2], v.val>>)
    IN  IF ~v.ok \/ d > Len(s) THEN ParseFail
        ELSE IF s[d] = 125 THEN ParseOk(<<"obj", all>>, d + 1)
        ELSE IF s[d] = 44 THEN ParseMembers(s, d + 1, all)
        ELSE ParseFail

\* the elements of an array from position i: value (, | ])
ParseElements(s, i, acc) ==
    LET v == ParseValue(s, i)
        d == IF v.ok THEN SkipWs(s, v.next) ELSE 0
        all == Append(acc, v.val)
    IN  IF ~v.ok \/ d > Len(s) THEN ParseFail
        ELSE IF s[d] = 93 THEN ParseOk(<<"arr", all>>, d + 1)
        ELSE IF s[d] = 44 THEN ParseElements(s, d + 1, all)
        ELSE ParseFail

\* JSON.parse(data): ok is FALSE where JSON.parse throws a SyntaxError
JSONParse(data) ==
    LET r == ParseValue(data, 1) IN
    IF r.ok /\ SkipWs(data, r.next) > Len(data) THEN r ELSE ParseFail

\* value.key for a JavaScript value: the last member of that name of an
\* object, undefined for a string, a number or a boolean
RECURSIVE MemberOf(_, _, _)
MemberOf(members, key, i) ==
    IF i = 0 THEN JsUndefined
    ELSE IF members[i][1] = key THEN members[i][2]
    ELSE MemberOf(members, key, i - 1)

GetProp(v, key) ==
    IF v[1] = "obj" THEN MemberOf(v[2], key, Len(v[2])) ELSE JsUndefined

\* reading a property of null or undefined throws a TypeError
PropThrows(v) == v = JsNull \/ v = JsUndefined


\* ------------------------------------------------------------------------
\* Errors, completions and tool results
\* ------------------------------------------------------------------------
\* new Error(message); status and data are the parts `Request failed:
\* ${status} - ${data}` interpolates, 0 and <<>> in every other error
Err(message, status, data) == [message |-> message, status |-> status, data |-> data]
NoErr == Err("", 0, <<>>)

\* how a call ends: it returns a value or throws (a promise resolves or rejects)
Return(v) == [ok |-> TRUE, val |-> v, err |-> NoErr]
Throw(e) == [ok |-> FALSE, val |-> JsUndefined, err |-> e]

TimeoutError == Err("Request timed out", 0, <<>>)
NetworkError == Err("socket hang up", 0, <<>>)
IoError == Err("EACCES: permission denied", 0, <<>>)
TypeError == Err("TypeError: cannot read properties of undefined", 0, <<>>)
ConfigError ==
    Err("Dropbox refresh token is not configured. Set DROPBOX_REFRESH_TOKEN (recommended) or create a token file. You can also use MCP tools: dropbox_auth_get_url, dropbox_auth_exchange_code",
        0, <<>>)
NoRefreshTokenError ==
    Err("Dropbox did not return a refresh_token. Ensure you requested offline access (token_access_type=offline) and the app is configured correctly.",
        0, <<>>)
UnknownToolError(name) == Err("Unknown tool: " \o name, 0, <<>>)

\* what the call-tool handler hands to the transport
NoResult == [isError |-> FALSE, escaped |-> FALSE, text |-> JsUndefined]
\* return { content: [{ type: "text", text }] }
Success(text) == [isError |-> FALSE, escaped |-> FALSE, text |-> text]
\* a handler without its catch block: the failure reaches the transport
CatchAll_rethrow(error) ==
    IF error = IoError \/ error = TypeError
    THEN [isError |-> FALSE, escaped |-> TRUE, text |-> <<"Uncaught", error>>]
    ELSE [isError |-> TRUE, escaped |-> FALSE, text |-> <<"Error: ", error>>]
\* catch (error) { return { content: [{ text: `Error: ${message}` }], isError: true } }
CatchAll(error) == [isError |-> TRUE, escaped |-> FALSE, text |-> <<"Error: ", error>>]

\* JSON.stringify(value, null, 2), kept as the value it prints; a member
\* whose value is undefined is left out, as JSON.stringify leaves it out
RECURSIVE DropUndefined(_)
DropUndefined(members) ==
    IF members = <<>> THEN <<>>
    ELSE IF Head(members)[2] = JsUndefined THEN DropUndefined(Tail(members))
    ELSE <<Head(members)>> \o DropUndefined(Tail(members))

Stringify2(v) ==
    IF v[1] = "obj" THEN <<"JSON.stringify", <<"obj", DropUndefined(v[2])>>>>
    ELSE <<"JSON.stringify", v>>

\* ------------------------------------------------------------------------
\* Token store and refresh-token resolution
\* ------------------------------------------------------------------------
\* path.join(os.homedir(), ".dropbox_token") unless DROPBOX_TOKEN_FILE is set
TOKEN_FILE_PATH == "~/.dropbox_token"

\* a save that appends to the file instead of truncating it
saveRefreshToken_append(old, token) ==
    IF old = None THEN token ELSE old \o token
\* fs.writeFileSync(TOKEN_FILE_PATH, token): the file's content afterwards
saveRefreshToken(old, token) == token

\* fs.existsSync(path) ? fs.readFileSync(path, "utf-8").trim() : null
loadRefreshToken(f) == IF f # None THEN Trim(f) ELSE None

\* a resolution that reads the token file first
getRefreshToken_fileFirst(e, f, faulty) ==
    IF f # None /\ faulty THEN Throw(IoError)
    ELSE IF Truthy(loadRefreshToken(f)) THEN Return(JsStr(loadRefreshToken(f)))
    ELSE IF Truthy(e) THEN Return(JsStr(e))
    ELSE Throw(ConfigError)
\* getRefreshToken with process.env.DROPBOX_REFRESH_TOKEN = e and the token
\* file holding f; faulty: reading the file throws
getRefreshToken(e, f, faulty) ==
    IF Truthy(e) THEN Return(JsStr(e))
    ELSE IF f # None /\ faulty THEN Throw(IoError)
    ELSE IF Truthy(loadRefreshToken(f)) THEN Return(JsStr(loadRefreshToken(f)))
    ELSE Throw(ConfigError)

\* ------------------------------------------------------------------------
\* makeRequest: the end of a complete response
\* ------------------------------------------------------------------------
ApiError(statusCode, data) == Err("Request failed: ", statusCode, data)

\* a success test that forgets the upper bound of the status range
OnEnd_noUpperBound(statusCode, data) ==
    IF statusCode >= 200
    THEN (IF JSONParse(data).ok THEN Return(JSONParse(data).val) ELSE Return(JsStr(data)))
    ELSE Throw(ApiError(statusCode, data))
\* res.on("end"): statusCode is 0 when the response carries none
OnEnd(statusCode, data) ==
    IF statusCode # 0 /\ statusCode >= 200 /\ statusCode < 300
    THEN (IF JSONParse(data).ok THEN Return(JSONParse(data).val) ELSE Return(JsStr(data)))
    ELSE Throw(ApiError(statusCode, data))


\* ------------------------------------------------------------------------
\* The Dropbox endpoints, as the server sees them
\* ------------------------------------------------------------------------
\* the n-th access token and the n-th refresh token the token endpoint issues
AccessTokenNo(n) == <<65, 48 + n>>
RefreshTokenNo(n) == <<82, 48 + n>>
\* a refresh token of n spaces
BlankTokenNo(n) == [i \in 1..n |-> 32]

\* {"access_token":<at>}
TokenBody(at) ==
    <<123, 34, 97, 99, 99, 101, 115, 115, 95, 116, 111, 107, 101, 110, 34, 58>>
    \o StringifyString(at) \o <<125>>
\* {"access_token":<at>,"refresh_token":<rt>}
TokenPairBody(at, rt) ==
    <<123, 34, 97, 99, 99, 101, 115, 115, 95, 116, 111, 107, 101, 110, 34, 58>>
    \o StringifyString(at)
    \o <<44, 34, 114, 101, 102, 114, 101, 115, 104, 95, 116, 111, 107, 101, 110, 34, 58>>
    \o StringifyString(rt) \o <<125>>
\* {"error":"invalid_grant"}
InvalidGrantBody ==
    <<123, 34, 101, 114, 114, 111, 114, 34, 58, 34, 105, 110, 118, 97, 108, 105,
      100, 95, 103, 114, 97, 110, 116, 34, 125>>
\* {"entries":[{"name":"a"}],"cursor":"c","has_more":<more>}
ListPageBody(more) ==
    <<123, 34, 101, 110, 116, 114, 105, 101, 115, 34, 58, 91, 123, 34, 110, 97,
      109, 101, 34, 58, 34, 97, 34, 125, 93, 44, 34, 99, 117, 114, 115, 111, 114,
      34, 58, 34, 99, 34, 44, 34, 104, 97, 115, 95, 109, 111, 114, 101, 34, 58>>
    \o (IF more THEN JsTrue[2] ELSE JsFalse[2]) \o <<125>>
\* {"name":"a.txt","id":"id:1"}
MetadataBody ==
    <<123, 34, 110, 97, 109, 101, 34, 58, 34, 97, 46, 116, 120, 116, 34, 44, 34,
      105, 100, 34, 58, 34, 105, 100, 58, 49, 34, 125>>
\* hello
PlainBody == <<104, 101, 108, 108, 111>>
\* {"a":1}
JsonFileBody == <<123, 34, 97, 34, 58, 49, 125>>
\* not found
NotFoundBody == <<110, 111, 116, 32, 102, 111, 117, 110, 100>>

\* property names
K_access_token == <<97, 99, 99, 101, 115, 115, 95, 116, 111, 107, 101, 110>>
K_refresh_token == <<114, 101, 102, 114, 101, 115, 104, 95, 116, 111, 107, 101, 110>>
K_entries == <<101, 110, 116, 114, 105, 101, 115>>
K_saved == <<115, 97, 118, 101, 100>>
K_tokenFile == <<116, 111, 107, 101, 110, 70, 105, 108, 101>>
K_path == <<112, 97, 116, 104>>
K_configured == <<99, 111, 110, 102, 105, 103, 117, 114, 101, 100>>
K_source == <<115, 111, 117, 114, 99, 101>>

\* a complete HTTP response
Reply(status, body, grants) == [status |-> status, body |-> body, grants |-> grants]

\* the replies of POST /oauth2/token to grant_type=refresh_token when n tokens
\* were issued before: a fresh access token or a refusal
TokenReplies(n) ==
    { Reply(200, TokenBody(AccessTokenNo(n + 1)), TRUE),
      Reply(400, InvalidGrantBody, FALSE) }

\* the replies to grant_type=authorization_code: a token pair, a pair whose
\* refresh token carries surrounding white space, a pair whose refresh token
\* is nothing but spaces, no refresh token (the code was not issued for offline
\* access), an empty one, a refusal
ExchangeReplies(n) ==
    { Reply(200, TokenPairBody(AccessTokenNo(n + 1), RefreshTokenNo(n + 1)), TRUE),
      Reply(200, TokenPairBody(AccessTokenNo(n + 1),
                               <<32>> \o RefreshTokenNo(n + 1) \o <<10>>), TRUE),
      Reply(200, TokenPairBody(AccessTokenNo(n + 1), BlankTokenNo(n + 1)), TRUE),
      Reply(200, TokenBody(AccessTokenNo(n + 1)), TRUE),
      Reply(200, TokenPairBody(AccessTokenNo(n + 1), <<>>), TRUE),
      Reply(400, InvalidGrantBody, FALSE) }

\* the replies of the content and api hosts to an operation
OperationReplies(tool) ==
    CASE tool = "dropbox_download" ->
            { Reply(200, PlainBody, FALSE), Reply(409, NotFoundBody, FALSE) }
      [] tool = "dropbox_upload" ->
            { Reply(200, MetadataBody, FALSE), Reply(409, NotFoundBody, FALSE) }
      [] OTHER ->
            { Reply(200, ListPageBody(TRUE), FALSE), Reply(409, NotFoundBody, FALSE) }

\* how makeRequest settles: on a complete response by OnEnd, on a transport
\* error with its cause, on the timeout with "Request timed out"
Settlements(replies) ==
    { [outcome |-> OnEnd(r.status, r.body), grants |-> r.grants] : r \in replies }
    \cup { [outcome |-> Throw(NetworkError), grants |-> FALSE],
           [outcome |-> Throw(TimeoutError), grants |-> FALSE] }


\* ------------------------------------------------------------------------
\* The server: tool invocations interleaved at their network waits
\* ------------------------------------------------------------------------
VARIABLES
    env,        \* process.env.DROPBOX_REFRESH_TOKEN, None when unset
    file,       \* the content of the token file, None when there is no file
    fsFaulty,   \* whether reads and writes of the token file may throw
    calls,      \* the tool invocations, by the order the transport delivers them
    grants      \* grants[n]: the invocation the endpoint issued its n-th token to

\* one operation (downloadFile, uploadFile, listFolder) followed in detail
VARIABLES
    opTool,     \* the tool whose operation runs
    opPath,     \* its filePath or folderPath argument
    opPc,       \* "start", "await" (its request is in flight) or "done"
    opSent,     \* the requests it sent to its endpoint, in order
    opReply,    \* the response its request got
    opRet       \* what the operation returned or threw

\* one makeRequest followed in detail
VARIABLES
    hstate,     \* "sent", "receiving" (the response callback ran), "settled"
    hstatus,    \* res.statusCode, 0 when the response carries none
    hchunks,    \* the chunks pushed by res.on("data")
    hmore,      \* data arrived beyond the chunks the model follows
    hidle,      \* clock ticks since the socket was last active
    hsettle     \* how the promise settled

serverVars == <<env, file, fsFaulty, calls, grants>>
opVars == <<opTool, opPath, opPc, opSent, opReply, opRet>>
httpVars == <<hstate, hstatus, hchunks, hmore, hidle, hsettle>>
vars == <<env, file, fsFaulty, calls, grants,
          opTool, opPath, opPc, opSent, opReply, opRet,
          hstate, hstatus, hchunks, hmore, hidle, hsettle>>

Calls == 1..MaxCalls

Tools ==
    { "dropbox_auth_status", "dropbox_auth_get_url", "dropbox_auth_exchange_code",
      "dropbox_download", "dropbox_upload", "dropbox_generate_filename",
      "dropbox_list_folder", "dropbox_no_such_tool" }

Operations == { "dropbox_download", "dropbox_upload", "dropbox_list_folder" }

\* request.params.arguments: given is FALSE when the request carries none;
\* save and openBrowser are "true", "false" or "omitted"
Args(given, save, openBrowser) ==
    [given |-> given, save |-> save, openBrowser |-> openBrowser]
NoArgs == Args(FALSE, "omitted", "omitted")
Flags == { "true", "false", "omitted" }

\* the arguments a tool is invoked with: none at all, or those it reads
ArgsOf(tool) ==
    { NoArgs } \cup
    CASE tool = "dropbox_auth_exchange_code" -> { Args(TRUE, s, "omitted") : s \in Flags }
      [] tool = "dropbox_auth_get_url" -> { Args(TRUE, "omitted", "true") }
      [] tool \in { "dropbox_auth_status", "dropbox_no_such_tool" } -> {}
      [] OTHER -> { Args(TRUE, "omitted", "omitted") }

\* an HTTP request as makeRequest issues it: cred is the refresh token or the
\* authorization code of a token request, the bearer token of an operation
Request(host, path, grantType, cred) ==
    [host |-> host, path |-> path, grant_type |-> grantType, cred |-> cred]

EndpointOf(tool) ==
    CASE tool = "dropbox_download" -> <<"content.dropboxapi.com", "/2/files/download">>
      [] tool = "dropbox_upload" -> <<"content.dropboxapi.com", "/2/files/upload">>
      [] OTHER -> <<"api.dropboxapi.com", "/2/files/list_folder">>

\* an invocation: sent are the HTTP requests it issued, got is how its latest
\* request settled, access is getAccessToken's return value
IdleCall ==
    [pc |-> "idle", tool |-> "", args |-> NoArgs, access |-> JsUndefined,
     sent |-> <<>>, got |-> Return(JsUndefined), result |-> NoResult]

\* the handler returned: pc "done" with its result
Done(call, result) == [call EXCEPT !.pc = "done", !.result = result]

\* case "dropbox_auth_status"
dropbox_auth_status(e, f, faulty) ==
    IF f # None /\ faulty THEN CatchAll(IoError)
    ELSE
    LET envToken == Trim(IF e = None THEN <<>> ELSE e)
        fileToken == Trim(IF loadRefreshToken(f) = None THEN <<>> ELSE loadRefreshToken(f))
        configured == IF Truthy(envToken) \/ Truthy(fileToken) THEN JsTrue ELSE JsFalse
        source == IF Truthy(envToken) THEN "env:DROPBOX_REFRESH_TOKEN"
                  ELSE IF Truthy(fileToken) THEN "file:" \o TOKEN_FILE_PATH
                  ELSE "none"
    IN  Success(Stringify2(<<"obj", << <<K_configured, configured>>,
                                       <<K_source, JsText(source)>> >> >>))

\* case "dropbox_auth_get_url": getAuthUrl(); openBrowser never throws
dropbox_auth_get_url(args) ==
    Success(JsText("https://www.dropbox.com/oauth2/authorize?client_id=APP_KEY&response_type=code&token_access_type=offline"))

\* case "dropbox_generate_filename": destructuring missing arguments throws
dropbox_generate_filename(args) ==
    IF ~args.given THEN CatchAll(TypeError)
    ELSE Success(JsText("YYYYMMDDHHmm-title.md"))

\* getAccessToken up to its wait for the token endpoint
StartOperation(call, e, f, faulty) ==
    LET rt == getRefreshToken(e, f, faulty) IN
    IF ~call.args.given THEN Done(call, CatchAll(TypeError))
    ELSE IF ~rt.ok THEN Done(call, CatchAll(rt.err))
    ELSE [call EXCEPT !.pc = "await_token",
                      !.sent = <<Request("api.dropboxapi.com", "/oauth2/token",
                                         "refresh_token", rt.val)>>]

\* exchangeCodeForToken up to its wait for the token endpoint
StartExchange(call) ==
    IF ~call.args.given THEN Done(call, CatchAll(TypeError))
    ELSE [call EXCEPT !.pc = "await_exchange",
                      !.sent = <<Request("api.dropboxapi.com", "/oauth2/token",
                                         "authorization_code", JsStr(<<99>>))>>]

\* the switch of the call-tool handler, up to the first wait
Dispatch(call, e, f, faulty) ==
    CASE call.tool = "dropbox_auth_status" -> Done(call, dropbox_auth_status(e, f, faulty))
      [] call.tool = "dropbox_auth_get_url" -> Done(call, dropbox_auth_get_url(call.args))
      [] call.tool = "dropbox_generate_filename" ->
            Done(call, dropbox_generate_filename(call.args))
      [] call.tool = "dropbox_auth_exchange_code" -> StartExchange(call)
      [] call.tool \in Operations -> StartOperation(call, e, f, faulty)
      [] OTHER -> Done(call, CatchAll(UnknownToolError(call.tool)))


\* `!value` for a JavaScript value
JsTruthy(v) ==
    CASE v[1] = "str" -> v[2] # <<>>
      [] v[1] = "undef" -> FALSE
      [] v[1] = "lit" -> v = JsTrue
      [] v[1] = "num" -> \E i \in 1..Len(v[2]) : v[2][i] \in 49..57
      [] OTHER -> TRUE

\* an access token kept from the first token response and used again
AccessTokenOf_cached(response) == JsStr(AccessTokenNo(1))
\* return response.access_token
AccessTokenOf(response) == GetProp(response, K_access_token)

\* getAccessToken after the token endpoint answered, then the operation's
\* request with `Bearer ${accessToken}`
ContinueOperation(call, outcome) ==
    IF ~outcome.ok THEN Done(call, CatchAll(outcome.err))
    ELSE IF PropThrows(outcome.val) THEN Done(call, CatchAll(TypeError))
    ELSE LET accessToken == AccessTokenOf(outcome.val) IN
         [call EXCEPT !.pc = "await_op", !.access = accessToken,
                      !.sent = Append(@, Request(EndpointOf(call.tool)[1],
                                                 EndpointOf(call.tool)[2],
                                                 "", accessToken))]

\* what downloadFile, uploadFile (return result) and listFolder (return
\* result.entries) return once their request settled with outcome
OperationReturn(tool, outcome) ==
    IF ~outcome.ok \/ tool \in { "dropbox_download", "dropbox_upload" } THEN outcome
    ELSE IF PropThrows(outcome.val) THEN Throw(TypeError)
    ELSE Return(GetProp(outcome.val, K_entries))

\* downloadFile / uploadFile / listFolder after their request settled, and
\* the handler's case that wraps the result
FinishOperation(call, outcome) ==
    LET r == OperationReturn(call.tool, outcome) IN
    IF ~r.ok THEN Done(call, CatchAll(r.err))
    ELSE IF call.tool = "dropbox_download" THEN Done(call, Success(r.val))
    ELSE Done(call, Success(Stringify2(r.val)))

\* a test for undefined alone, which lets an empty refresh token through
RefreshTokenMissing_undefinedOnly(refreshToken) == refreshToken = JsUndefined
\* if (!refreshToken)
RefreshTokenMissing(refreshToken) == ~JsTruthy(refreshToken)

\* save !== false
ShouldSave(args) == args.save # "false"

\* what a failed fs.writeFileSync leaves behind: the file as it was (the
\* open failed) or truncated (the write failed)
FailedWrite(f) == { f, <<>> }

\* a handler that leaves the configuration as it was
ConfiguredAfter_kept(e, refreshToken) == e
\* process.env.DROPBOX_REFRESH_TOKEN = refreshToken
ConfiguredAfter(e, refreshToken) == refreshToken

\* case "dropbox_auth_exchange_code" after the token endpoint answered: the
\* state [call, file, env] it leaves, for each way the file write can go
FinishExchange(call, outcome, e, f, faulty) ==
    LET refreshToken == GetProp(outcome.val, K_refresh_token)
        shouldSave == ShouldSave(call.args)
        keep(c) == { [call |-> c, file |-> f, env |-> e] }
    IN  IF ~outcome.ok THEN keep(Done(call, CatchAll(outcome.err)))
        ELSE IF PropThrows(outcome.val) THEN keep(Done(call, CatchAll(TypeError)))
        ELSE IF RefreshTokenMissing(refreshToken)
        THEN keep(Done(call, CatchAll(NoRefreshTokenError)))
        ELSE IF shouldSave /\ faulty
        THEN { [call |-> Done(call, CatchAll(IoError)), file |-> g, env |-> e] :
                 g \in FailedWrite(f) }
        ELSE { [call |-> Done(call, Success(Stringify2(
                            <<"obj", << <<K_refresh_token, refreshToken>>,
                                        <<K_saved, IF shouldSave THEN JsTrue ELSE JsFalse>>,
                                        <<K_tokenFile, IF shouldSave THEN JsText(TOKEN_FILE_PATH)
                                                       ELSE JsUndefined>> >> >>))),
                 file |-> IF shouldSave THEN saveRefreshToken(f, refreshToken[2]) ELSE f,
                 env |-> ConfiguredAfter(e, refreshToken[2])] }

\* the configuration values and token files the server may start with:
\* unset or missing, empty, blank, a token, a token within white space
EnvValues == { None, <<>>, <<32>>, <<69>> }
FileValues == { None, <<10>>, <<32, 70, 10>> }

ServerInit ==
    /\ env \in EnvValues
    /\ file \in FileValues
    /\ fsFaulty = FALSE
    /\ calls = [c \in Calls |-> IdleCall]
    /\ grants = <<>>

\* whether one read or write of the token file throws
FsOutcomes == IF fsFaulty THEN BOOLEAN ELSE { FALSE }

\* the transport delivers the next tools/call request
Invoke(c) ==
    /\ calls[c].pc = "idle"
    /\ \A d \in Calls : d < c => calls[d].pc # "idle"
    /\ \E tool \in Tools : \E args \in ArgsOf(tool) : \E fails \in FsOutcomes :
         calls' = [calls EXCEPT ![c] =
                     Dispatch([@ EXCEPT !.tool = tool, !.args = args], env, file, fails)]
    /\ UNCHANGED <<env, file, fsFaulty, grants, opVars, httpVars>>

\* the token request of an operation settles
TokenSettled(c) ==
    /\ calls[c].pc = "await_token"
    /\ \E s \in Settlements(TokenReplies(Len(grants))) :
         /\ calls' = [calls EXCEPT ![c] = ContinueOperation([@ EXCEPT !.got = s.outcome],
                                                            s.outcome)]
         /\ grants' = IF s.grants THEN Append(grants, c) ELSE grants
    /\ UNCHANGED <<env, file, fsFaulty, opVars, httpVars>>

\* the request to the operation's endpoint settles
OperationSettled(c) ==
    /\ calls[c].pc = "await_op"
    /\ \E s \in Settlements(OperationReplies(calls[c].tool)) :
         calls' = [calls EXCEPT ![c] = FinishOperation([@ EXCEPT !.got = s.outcome],
                                                       s.outcome)]
    /\ UNCHANGED <<env, file, fsFaulty, grants, opVars, httpVars>>

\* the token request of an exchange settles
ExchangeSettled(c) ==
    /\ calls[c].pc = "await_exchange"
    /\ \E s \in Settlements(ExchangeReplies(Len(grants))) :
         /\ \E fails \in FsOutcomes :
            \E after \in FinishExchange([calls[c] EXCEPT !.got = s.outcome], s.outcome,
                                         env, file, fails) :
              /\ calls' = [calls EXCEPT ![c] = after.call]
              /\ file' = after.file
              /\ env' = after.env
         /\ grants' = IF s.grants THEN Append(grants, c) ELSE grants
    /\ UNCHANGED <<fsFaulty, opVars, httpVars>>

ServerNext ==
    \E c \in Calls :
        \/ Invoke(c)
        \/ TokenSettled(c)
        \/ OperationSettled(c)
        \/ ExchangeSettled(c)

\* the state of an operation and of a request that are not followed
OpIdle ==
    /\ opTool = "" /\ opPath = <<>> /\ opPc = "idle" /\ opSent = <<>>
    /\ opReply = Reply(0, <<>>, FALSE) /\ opRet = Return(JsUndefined)
HttpIdle ==
    /\ hstate = "idle" /\ hstatus = 0 /\ hchunks = <<>> /\ hmore = FALSE
    /\ hidle = 0 /\ hsettle = Return(JsUndefined)

Init == ServerInit /\ OpIdle /\ HttpIdle
Next == ServerNext
\* the server with a token file that can be read and written
Spec == Init /\ [][Next]_vars

FaultInit ==
    /\ env \in EnvValues
    /\ file \in FileValues
    /\ fsFaulty = TRUE
    /\ calls = [c \in Calls |-> IdleCall]
    /\ grants = <<>>
    /\ OpIdle /\ HttpIdle
\* the server with a token file whose reads and writes may fail
FaultSpec == FaultInit /\ [][Next]_vars


\* ------------------------------------------------------------------------
\* Claims about the server
\* ------------------------------------------------------------------------
IsTaggedError(result) ==
    /\ result.isError
    /\ ~result.escaped
    /\ result.text[1] = "Error: "
    /\ result.text[2].message # ""

IsSuccess(result) == ~result.isError /\ ~result.escaped

\* C1: every finished invocation, of a known or an unknown tool, with or
\* without arguments, whatever failed inside it (configuration, network,
\* timeout, API, authorization, token-file I/O, unknown tool), handed the
\* transport a result: a success, or isError = true with the text "Error: "
\* followed by the failure's message; no failure escaped; an unknown tool
\* name gives the tagged error "Unknown tool: <name>".
C1_ToolBoundaryCatchesAll ==
    \A c \in Calls :
        /\ calls[c].pc \in { "idle", "await_token", "await_op", "await_exchange", "done" }
        /\ calls[c].pc = "done" =>
              /\ ~calls[c].result.escaped
              /\ IsSuccess(calls[c].result) \/ IsTaggedError(calls[c].result)
              /\ ~calls[c].got.ok =>
                    calls[c].result = [isError |-> TRUE, escaped |-> FALSE,
                                       text |-> <<"Error: ", calls[c].got.err>>]
              /\ calls[c].tool = "dropbox_no_such_tool" =>
                    calls[c].result =
                        [isError |-> TRUE, escaped |-> FALSE,
                         text |-> <<"Error: ", Err("Unknown tool: " \o calls[c].tool, 0, <<>>)>>]
        /\ calls[c].pc # "done" => calls[c].result = NoResult

\* every kind of failure was caught at least once: a failed token-file
\* write, missing arguments, an unknown tool, a timeout
C1_Witness ==
    /\ calls[1].pc = "done" /\ calls[1].result.isError
    /\ calls[1].result.text[2] = IoError
    /\ calls[2].pc = "done" /\ calls[2].result.isError
    /\ calls[2].result.text[2] = UnknownToolError("dropbox_no_such_tool")

\* the invocation c starts an operation in this step, its arguments given
StartsOperation(c) ==
    /\ calls[c].pc = "idle"
    /\ calls'[c].pc # "idle"
    /\ calls'[c].tool \in Operations
    /\ calls'[c].args.given

\* C2: getRefreshToken returns the configured token (DROPBOX_REFRESH_TOKEN)
\* whenever it is non-empty, whatever the token file holds; the token file's
\* (trimmed) value only when the configured value is absent or empty; and
\* fails with the configuration error exactly when neither is non-empty. It
\* changes neither the token file nor the configuration, and the invocation
\* does not wait before it has the answer.
C2_ResolveRefreshToken ==
    [][\A c \in Calls : StartsOperation(c) =>
          /\ env' = env /\ file' = file
          /\ (env # None /\ env # <<>>) =>
                /\ calls'[c].pc = "await_token"
                /\ calls'[c].sent[1].cred = JsStr(env)
          /\ (env = None \/ env = <<>>) /\ file # None /\ Trim(file) # <<>> =>
                /\ calls'[c].pc = "await_token"
                /\ calls'[c].sent[1].cred = JsStr(Trim(file))
          /\ (env = None \/ env = <<>>) /\ (file = None \/ Trim(file) = <<>>) =>
                /\ calls'[c].pc = "done"
                /\ calls'[c].sent = <<>>
                /\ calls'[c].result = [isError |-> TRUE, escaped |-> FALSE,
                                       text |-> <<"Error: ", ConfigError>>]
          /\ calls'[c].result.text = <<"Error: ", ConfigError>> =>
                (env = None \/ env = <<>>) /\ (file = None \/ Trim(file) = <<>>)
      ]_vars

\* the configured value is empty, the file holds a token within white
\* space, and an operation sent the file's token, trimmed; the other
\* invocation found the configuration as it was
C2_Witness ==
    /\ calls[1].pc = "await_token"
    /\ calls[1].sent[1].cred = JsStr(<<70>>)
    /\ env = <<>> /\ file = <<32, 70, 10>>
    /\ calls[2].pc = "await_token"
    /\ calls[2].sent[1].cred = calls[1].sent[1].cred

IsTokenRequest(r) ==
    /\ r.host = "api.dropboxapi.com" /\ r.path = "/oauth2/token"
    /\ r.grant_type = "refresh_token"

\* the request r went to the endpoint of the tool, with a bearer token the
\* token endpoint issued to the invocation c
IsOperationRequest(r, tool, c) ==
    /\ <<r.host, r.path>> = EndpointOf(tool)
    /\ r.grant_type = ""
    /\ \E n \in 1..Len(grants) : grants[n] = c /\ r.cred = JsStr(AccessTokenNo(n))

\* C3: an invocation of download, upload or listFolder issues one access
\* token request (POST /oauth2/token, grant_type=refresh_token) and then one
\* request to its endpoint, carrying the access token that this invocation's
\* token request returned; no invocation uses the token of another; nothing
\* is sent twice; and when refresh-token resolution or the token request
\* fails, no request goes to the endpoint.
C3_TokenThenOneRequest ==
    \A c \in Calls : calls[c].tool \in Operations =>
        LET call == calls[c] IN
        /\ Len(call.sent) <= 2
        /\ Len(call.sent) >= 1 => IsTokenRequest(call.sent[1])
        /\ Len(call.sent) = 2 => IsOperationRequest(call.sent[2], call.tool, c)
        /\ call.pc = "await_token" => Len(call.sent) = 1
        /\ call.pc = "await_op" => Len(call.sent) = 2
        /\ call.pc = "done" /\ IsSuccess(call.result) => Len(call.sent) = 2
        /\ call.pc = "done" /\ Len(call.sent) = 1 =>
              ~call.got.ok /\ ~\E n \in 1..Len(grants) : grants[n] = c
        /\ call.pc = "done" /\ call.result.text = <<"Error: ", ConfigError>> =>
              call.sent = <<>>
        /\ \A d \in Calls \ {c} :
              Len(call.sent) = 2 /\ Len(calls[d].sent) = 2 =>
                  call.sent[2].cred # calls[d].sent[2].cred

\* two operations ran to their end, each with its own access token
C3_Witness ==
    /\ \A c \in Calls :
          /\ calls[c].tool \in Operations
          /\ calls[c].pc = "done"
          /\ Len(calls[c].sent) = 2
    /\ calls[1].access # calls[2].access


\* the exchange c ends in this step
ExchangeEnds(c) ==
    /\ calls[c].pc = "await_exchange"
    /\ calls'[c].pc = "done"

\* the refresh token of the response an exchange got, JsUndefined when the
\* request failed or the response carries none
ReturnedRefreshToken(call) ==
    IF call.got.ok THEN GetProp(call.got.val, K_refresh_token) ELSE JsUndefined

\* the result { refresh_token, saved: true, tokenFile } as the handler prints it
SavedResult(refreshToken) ==
    [isError |-> FALSE, escaped |-> FALSE,
     text |-> <<"JSON.stringify",
                <<"obj", << <<K_refresh_token, refreshToken>>,
                            <<K_saved, JsTrue>>,
                            <<K_tokenFile, JsText(TOKEN_FILE_PATH)>> >> >> >>]

\* C6: when auth_exchange_code is invoked with save true or omitted and the
\* token endpoint returns a refresh token R, the result is { refresh_token:
\* R, saved: true, tokenFile: <the token file's path> } and the token file
\* then holds R, whatever it held before, so that load() returns R with its
\* surrounding white space trimmed.
C6_ExchangeSavesRoundTrip ==
    [][\A c \in Calls :
          (/\ ExchangeEnds(c)
           /\ calls[c].args.save # "false"
           /\ ReturnedRefreshToken(calls'[c])[1] = "str"
           /\ ReturnedRefreshToken(calls'[c])[2] # <<>>)
          => LET R == ReturnedRefreshToken(calls'[c]) IN
             /\ calls'[c].result = SavedResult(R)
             /\ file' = R[2]
             /\ loadRefreshToken(file') = Trim(R[2])
      ]_vars

\* an exchange with save omitted got a refresh token within white space and
\* wrote it over a file that held another token; load() gives it trimmed
C6_Witness ==
    \E c \in Calls :
        /\ calls[c].tool = "dropbox_auth_exchange_code"
        /\ calls[c].pc = "done"
        /\ calls[c].args.save = "omitted"
        /\ calls[c].result = SavedResult(JsStr(file))
        /\ file = <<32>> \o RefreshTokenNo(2) \o <<10>>
        /\ loadRefreshToken(file) = RefreshTokenNo(2)
        /\ \E d \in Calls \ {c} : calls[d].result = SavedResult(JsStr(RefreshTokenNo(1)))

\* C7: when auth_exchange_code fails because the token request fails or
\* because the 2xx response carries no refresh token, or an empty one, the
\* invocation returns a tagged error and leaves the token file and the
\* configured refresh token (DROPBOX_REFRESH_TOKEN) as they were.
C7_FailedExchangeChangesNothing ==
    [][\A c \in Calls :
          (/\ ExchangeEnds(c)
           /\ \/ ~calls'[c].got.ok
              \/ ReturnedRefreshToken(calls'[c]) = JsUndefined
              \/ ReturnedRefreshToken(calls'[c]) = JsStr(<<>>))
          => /\ IsTaggedError(calls'[c].result)
             /\ file' = file
             /\ env' = env
      ]_vars

\* one exchange failed for an empty refresh token and one for a refused
\* token request, with a token file and a configured token in place
C7_Witness ==
    /\ calls[1].pc = "done" /\ calls[1].tool = "dropbox_auth_exchange_code"
    /\ calls[1].got.ok /\ ReturnedRefreshToken(calls[1]) = JsStr(<<>>)
    /\ calls[1].result.text = <<"Error: ", NoRefreshTokenError>>
    /\ calls[2].pc = "done" /\ calls[2].tool = "dropbox_auth_exchange_code"
    /\ calls[2].result.text = <<"Error: ", ApiError(400, InvalidGrantBody)>>
    /\ file = <<32, 70, 10>> /\ env = <<69>>


\* ------------------------------------------------------------------------
\* One operation in detail: its request and its return value
\* ------------------------------------------------------------------------
\* the code units a path is drawn from: / a " \ ~, a tab, a line feed and a
\* control character without a short escape, DEL, a Latin-1 and a BMP
\* character, the two halves of a surrogate pair, and the last code unit
PathUnits == { 47, 97, 34, 92, 126, 9, 10, 1, 127, 233, 12354, 55357, 56832, 65535 }

RECURSIVE SeqsUpTo(_, _)
SeqsUpTo(S, n) ==
    IF n = 0 THEN { <<>> }
    ELSE LET shorter == SeqsUpTo(S, n - 1) IN
         shorter \cup { Append(s, x) : s \in shorter, x \in S }

\* /a.txt
ExamplePath == <<47, 97, 46, 116, 120, 116>>

Paths == SeqsUpTo(PathUnits, MaxPathLen) \cup { ExamplePath }

\* {"path":
PathMemberPrefix == <<123, 34, 112, 97, 116, 104, 34, 58>>
\* ,"mode":"add","autorename":true,"mute":false}
UploadModeSuffix ==
    <<44, 34, 109, 111, 100, 101, 34, 58, 34, 97, 100, 100, 34, 44, 34, 97, 117,
      116, 111, 114, 101, 110, 97, 109, 101, 34, 58, 116, 114, 117, 101, 44, 34,
      109, 117, 116, 101, 34, 58, 102, 97, 108, 115, 101, 125>>
\* ,"recursive":false,"include_media_info":false,"include_deleted":false,
\* "include_has_explicit_shared_members":false}
ListOptionsSuffix ==
    <<44, 34, 114, 101, 99, 117, 114, 115, 105, 118, 101, 34, 58, 102, 97, 108,
      115, 101, 44, 34, 105, 110, 99, 108, 117, 100, 101, 95, 109, 101, 100, 105,
      97, 95, 105, 110, 102, 111, 34, 58, 102, 97, 108, 115, 101, 44, 34, 105,
      110, 99, 108, 117, 100, 101, 95, 100, 101, 108, 101, 116, 101, 100, 34, 58,
      102, 97, 108, 115, 101, 44, 34, 105, 110, 99, 108, 117, 100, 101, 95, 104,
      97, 115, 95, 101, 120, 112, 108, 105, 99, 105, 116, 95, 115, 104, 97, 114,
      101, 100, 95, 109, 101, 109, 98, 101, 114, 115, 34, 58, 102, 97, 108, 115,
      101, 125>>

\* "Dropbox-API-Arg": escapeNonAscii(JSON.stringify({ path: filePath }))
DownloadApiArg(filePath) ==
    escapeNonAscii(PathMemberPrefix \o StringifyString(filePath) \o <<125>>)

\* escapeNonAscii(JSON.stringify({ path, mode: "add", autorename: true, mute: false }))
UploadApiArg(filePath) ==
    escapeNonAscii(PathMemberPrefix \o StringifyString(filePath) \o UploadModeSuffix)

\* a normalisation that is left out
ListPathArg_unchanged(folderPath) == folderPath
\* folderPath === "/" ? "" : folderPath
ListPathArg(folderPath) == IF folderPath = <<47>> THEN <<>> ELSE folderPath

\* JSON.stringify({ path, recursive: false, include_media_info: false, ... })
ListBody(folderPath) ==
    PathMemberPrefix \o StringifyString(ListPathArg(folderPath)) \o ListOptionsSuffix

\* the request of an operation: apiArg is its Dropbox-API-Arg header, body
\* the body it writes, None where it has none
OperationRequest(tool, path) ==
    [host |-> EndpointOf(tool)[1], path |-> EndpointOf(tool)[2],
     apiArg |-> CASE tool = "dropbox_download" -> DownloadApiArg(path)
                  [] tool = "dropbox_upload" -> UploadApiArg(path)
                  [] OTHER -> None,
     body |-> CASE tool = "dropbox_download" -> None
                [] tool = "dropbox_upload" -> PlainBody
                [] OTHER -> ListBody(path)]

\* the replies followed in detail: for a download, files whose content is
\* plain text, a JSON object, a number, null, and an empty file
DetailedReplies(tool) ==
    IF tool = "dropbox_download"
    THEN { Reply(200, b, FALSE) :
             b \in { PlainBody, JsonFileBody, <<49, 50, 51>>, JsNull[2], <<>> } }
         \cup { Reply(409, NotFoundBody, FALSE) }
    ELSE IF tool = "dropbox_upload"
    THEN { Reply(200, MetadataBody, FALSE), Reply(409, NotFoundBody, FALSE) }
    ELSE { Reply(200, ListPageBody(TRUE), FALSE), Reply(200, ListPageBody(FALSE), FALSE),
           Reply(409, NotFoundBody, FALSE) }

\* the server state while one operation or one request is followed
ServerIdle ==
    /\ env = None /\ file = None /\ fsFaulty = FALSE
    /\ calls = [c \in Calls |-> IdleCall] /\ grants = <<>>

OpInit ==
    /\ ServerIdle /\ HttpIdle
    /\ opTool \in Operations
    /\ opPath \in Paths
    /\ opPc = "start"
    /\ opSent = <<>>
    /\ opReply = Reply(0, <<>>, FALSE)
    /\ opRet = Return(JsUndefined)

\* the operation, its access token at hand, issues its request
OpSend ==
    /\ opPc = "start"
    /\ opPc' = "await"
    /\ opSent' = Append(opSent, OperationRequest(opTool, opPath))
    /\ UNCHANGED <<opTool, opPath, opReply, opRet, serverVars, httpVars>>

\* a complete response arrives and the operation returns
OpSettle ==
    /\ opPc = "await"
    /\ \E r \in DetailedReplies(opTool) :
         /\ opReply' = r
         /\ opRet' = OperationReturn(opTool, OnEnd(r.status, r.body))
    /\ opPc' = "done"
    /\ UNCHANGED <<opTool, opPath, opSent, serverVars, httpVars>>

\* the request fails without a response
OpFail ==
    /\ opPc = "await"
    /\ \E e \in { NetworkError, TimeoutError } :
         opRet' = OperationReturn(opTool, Throw(e))
    /\ opPc' = "done"
    /\ UNCHANGED <<opTool, opPath, opSent, opReply, serverVars, httpVars>>

OpNext == OpSend \/ OpSettle \/ OpFail

\* one operation, for every path up to MaxPathLen code units
OpSpec == OpInit /\ [][OpNext]_vars


\* ------------------------------------------------------------------------
\* Properties of one operation
\* ------------------------------------------------------------------------
OpSettledBy2xx ==
    opPc = "done" /\ opReply.status >= 200 /\ opReply.status < 300

\* C5, as the specification states it: a download whose request got a 2xx
\* response returns the raw body text of that response, whatever the body,
\* bodies that are themselves valid JSON included
C5_DownloadReturnsBodyText ==
    (opTool = "dropbox_download" /\ OpSettledBy2xx)
        => opRet = Return(JsStr(opReply.body))

K_name == <<110, 97, 109, 101>>
\* the entries of the page ListPageBody describes: [{"name":"a"}]
FirstPageEntries == <<"arr", << <<"obj", << <<K_name, JsStr(<<97>>)>> >> >> >> >>

\* C9: listFolder sends one request whose body has the path field "" when
\* folderPath is exactly "/" and folderPath itself otherwise, and it returns
\* the entries of the first page whatever has_more says, without ever
\* sending a second request
C9_ListFolderFirstPageOnly ==
    (opTool = "dropbox_list_folder" /\ opPc # "start") =>
        /\ Len(opSent) = 1
        /\ opSent[1].path = "/2/files/list_folder"
        /\ JSONParse(opSent[1].body).ok
        /\ GetProp(JSONParse(opSent[1].body).val, K_path)
             = JsStr(IF opPath = <<47>> THEN <<>> ELSE opPath)
        /\ \A more \in BOOLEAN :
             (opPc = "done" /\ opReply = Reply(200, ListPageBody(more), FALSE))
                 => opRet = Return(FirstPageEntries)

\* the folder "/" was listed, the page said has_more, and its entries returned
C9_Witness ==
    /\ opTool = "dropbox_list_folder" /\ opPath = <<47>> /\ opPc = "done"
    /\ Len(opSent) = 1
    /\ GetProp(JSONParse(opSent[1].body).val, K_path) = JsStr(<<>>)
    /\ opReply = Reply(200, ListPageBody(TRUE), FALSE)
    /\ opRet = Return(FirstPageEntries)

PrintableAscii(s) == \A i \in 1..Len(s) : s[i] >= 32 /\ s[i] <= 126

RECURSIVE EscapedWith(_, _, _)
\* the units of s from i on, each written as Unit writes it
EscapedWith(Unit(_), s, i) ==
    IF i > Len(s) THEN <<>> ELSE Unit(s[i]) \o EscapedWith(Unit, s, i + 1)

\* a quote and a backslash behind a backslash, other printable ASCII as
\* itself, everything else as \uXXXX
UnitAsStated(c) ==
    IF c = 34 \/ c = 92 THEN <<92, c>>
    ELSE IF c >= 32 /\ c <= 126 THEN <<c>>
    ELSE <<92, 117, HexDigit(c \div 4096), HexDigit((c \div 256) % 16),
           HexDigit((c \div 16) % 16), HexDigit(c % 16)>>

\* as stated, but backspace, tab, line feed, form feed and carriage return
\* as \b \t \n \f \r
UnitWithShortEscapes(c) ==
    CASE c = 8 -> <<92, 98>>
      [] c = 9 -> <<92, 116>>
      [] c = 10 -> <<92, 110>>
      [] c = 12 -> <<92, 102>>
      [] c = 13 -> <<92, 114>>
      [] OTHER -> UnitAsStated(c)

K_mode == <<109, 111, 100, 101>>
K_autorename == <<97, 117, 116, 111, 114, 101, 110, 97, 109, 101>>
K_mute == <<109, 117, 116, 101>>

\* the header is printable ASCII, decodes to the path (and the upload
\* options), and is {"path":"/a.txt"} for a download of /a.txt
HeaderIsAsciiAndDecodes(header) ==
    /\ PrintableAscii(header)
    /\ JSONParse(header).ok
    /\ GetProp(JSONParse(header).val, K_path) = JsStr(opPath)
    /\ opTool = "dropbox_upload" =>
         /\ GetProp(JSONParse(header).val, K_mode) = JsStr(<<97, 100, 100>>)
         /\ GetProp(JSONParse(header).val, K_autorename) = JsTrue
         /\ GetProp(JSONParse(header).val, K_mute) = JsFalse
    /\ (opTool = "dropbox_download" /\ opPath = ExamplePath) =>
         header = <<123, 34, 112, 97, 116, 104, 34, 58, 34, 47, 97, 46, 116, 120,
                    116, 34, 125>>

\* the header with the path written unit by unit as Unit writes it
HeaderWith(Unit(_)) ==
    PathMemberPrefix \o <<34>> \o EscapedWith(Unit, opPath, 1) \o <<34>>
    \o (IF opTool = "dropbox_upload" THEN UploadModeSuffix ELSE <<125>>)

SendsApiArg == opTool \in { "dropbox_download", "dropbox_upload" } /\ opPc # "start"

\* C10, as the specification states it: the Dropbox-API-Arg header of a
\* download or an upload is printable ASCII, every character of the path
\* outside 0x20..0x7E appears in it as a \uXXXX escape, and it decodes to
\* the original path
C10_EveryOtherUnitAsUEscape ==
    SendsApiArg =>
        /\ HeaderIsAsciiAndDecodes(opSent[1].apiArg)
        /\ opSent[1].apiArg = HeaderWith(UnitAsStated)

\* C10, amended: the Dropbox-API-Arg header of a download or an upload is
\* printable ASCII and decodes as JSON to the original path (for an upload
\* with mode "add", autorename true, mute false); a character of the path
\* outside 0x20..0x7E appears in it as a \uXXXX escape, except backspace,
\* tab, line feed, form feed and carriage return, which appear as \b \t \n
\* \f \r; the download header of /a.txt is {"path":"/a.txt"}
C10_HeaderAsciiWithShortEscapes ==
    SendsApiArg =>
        /\ HeaderIsAsciiAndDecodes(opSent[1].apiArg)
        /\ opSent[1].apiArg = HeaderWith(UnitWithShortEscapes)

\* an upload to the path <line feed, e-acute> sent the header
\* {"path":"\né","mode":"add","autorename":true,"mute":false}
C10_Witness ==
    /\ opTool = "dropbox_upload" /\ opPath = <<10, 233>> /\ opPc = "await"
    /\ opSent[1].apiArg =
         PathMemberPrefix \o <<34, 92, 110, 92, 117, 48, 48, 101, 57, 34>>
         \o UploadModeSuffix


\* ------------------------------------------------------------------------
\* One makeRequest in detail: response, data, end, the clock and the timer
\* ------------------------------------------------------------------------
\* res.statusCode: none, and the codes around the two ends of [200, 300)
Statuses == { 0, 199, 200, 299, 300, 404 }

\* {"a":
ChunkObjectHead == <<123, 34, 97, 34, 58>>
\* 1}
ChunkObjectTail == <<49, 125>>
\* hi
ChunkText == <<104, 105>>
\* 12
ChunkDigits == <<49, 50>>
Chunks == { ChunkObjectHead, ChunkObjectTail, ChunkText, ChunkDigits }

RECURSIVE Concat(_, _)
\* Buffer.concat(chunks).toString() from chunk i on
Concat(chunks, i) ==
    IF i > Len(chunks) THEN <<>> ELSE chunks[i] \o Concat(chunks, i + 1)

InFlight == hstate \in { "sent", "receiving" }

HttpInit ==
    /\ ServerIdle /\ OpIdle
    /\ hstate = "sent"
    /\ hstatus = 0
    /\ hchunks = <<>>
    /\ hmore = FALSE
    /\ hidle = 0
    /\ hsettle = Return(JsUndefined)

\* the response head arrives and the callback of https.request registers
\* the data and end listeners
Response ==
    /\ hstate = "sent"
    /\ \E s \in Statuses : hstatus' = s
    /\ hstate' = "receiving"
    /\ hidle' = 0
    /\ UNCHANGED <<hchunks, hmore, hsettle, serverVars, opVars>>

\* res.on("data"): the socket was active, the chunk is kept; beyond MaxChunks
\* chunks the content is no longer followed
Data ==
    /\ hstate = "receiving"
    /\ \E chunk \in Chunks :
         IF Len(hchunks) < MaxChunks /\ ~hmore
         THEN hchunks' = Append(hchunks, chunk) /\ hmore' = hmore
         ELSE hchunks' = hchunks /\ hmore' = TRUE
    /\ hidle' = 0
    /\ UNCHANGED <<hstate, hstatus, hsettle, serverVars, opVars>>

\* res.on("end") of a response whose content was followed to its end
End ==
    /\ hstate = "receiving" /\ ~hmore
    /\ hsettle' = OnEnd(hstatus, Concat(hchunks, 1))
    /\ hstate' = "settled"
    /\ UNCHANGED <<hstatus, hchunks, hmore, hidle, serverVars, opVars>>

\* time passes without activity on the socket
Tick ==
    /\ InFlight /\ hidle < TimeoutTicks
    /\ hidle' = hidle + 1
    /\ UNCHANGED <<hstate, hstatus, hchunks, hmore, hsettle, serverVars, opVars>>

\* the socket was idle for the whole timeout: req.destroy(new Error("Request
\* timed out")), whose error event rejects
TimeoutFires ==
    /\ InFlight /\ hidle = TimeoutTicks
    /\ hsettle' = Throw(TimeoutError)
    /\ hstate' = "settled"
    /\ UNCHANGED <<hstatus, hchunks, hmore, hidle, serverVars, opVars>>

\* req.on("error", reject)
TransportError ==
    /\ InFlight
    /\ hsettle' = Throw(NetworkError)
    /\ hstate' = "settled"
    /\ UNCHANGED <<hstatus, hchunks, hmore, hidle, serverVars, opVars>>

HttpNext == Response \/ Data \/ End \/ Tick \/ TimeoutFires \/ TransportError

\* one request, whatever the peer and the network do
HttpSpec == HttpInit /\ [][HttpNext]_vars

\* one request, with a clock that advances and a timer that fires when due
HttpFairSpec == HttpSpec /\ WF_vars(Tick) /\ WF_vars(TimeoutFires)

\* ------------------------------------------------------------------------
\* Properties of one request
\* ------------------------------------------------------------------------
\* the promise settled from res.on("end")
SettledByEnd ==
    hstate = "settled" /\ hsettle # Throw(TimeoutError) /\ hsettle # Throw(NetworkError)

\* C4: a complete response with a status in [200, 300) succeeds with the
\* parsed value when its body is valid JSON and with the raw body text when it
\* is not; with any other status, or none, it fails with an error carrying
\* the status code and the raw body text, JSON or not
C4_OutcomeByStatusAndBody ==
    SettledByEnd =>
        LET body == Concat(hchunks, 1) IN
        IF hstatus \in 200..299
        THEN hsettle.ok /\ hsettle.val = (IF JSONParse(body).ok THEN JSONParse(body).val
                                          ELSE JsStr(body))
        ELSE ~hsettle.ok /\ hsettle.err.status = hstatus /\ hsettle.err.data = body

\* a 200 whose body {"a":1} came in two chunks resolved with the object
C4_Witness ==
    /\ hstate = "settled" /\ hstatus = 200
    /\ hchunks = <<ChunkObjectHead, ChunkObjectTail>>
    /\ hsettle = Return(<<"obj", << <<<<97>>, <<"num", <<49>>>>>> >> >>)

\* C8, as the specification states it: every request that makeRequest
\* started eventually settles, one whose response has started but never
\* completes included
C8_EveryRequestSettles == InFlight ~> (hstate = "settled")


\* ------------------------------------------------------------------------
\* Properties of the configured token
\* ------------------------------------------------------------------------
\* the invocation c is an auth_status handled in this step
StatusEnds(c) ==
    /\ calls[c].pc = "idle"
    /\ calls'[c].pc = "done"
    /\ calls'[c].tool = "dropbox_auth_status"

\* the result { configured, source } as the handler prints it
StatusResult(configured, source) ==
    [isError |-> FALSE, escaped |-> FALSE,
     text |-> <<"JSON.stringify",
                <<"obj", << <<K_configured, IF configured THEN JsTrue ELSE JsFalse>>,
                            <<K_source, JsText(source)>> >> >> >>]

IsBlank(s) == \A i \in 1..Len(s) : IsJsWhiteSpace(s[i])

\* C11, as the specification states it: an empty or whitespace-only refresh
\* token is never treated as configured. No token request carries one, and
\* auth_status reports configured = true exactly when an operation started in
\* the same state sends a token request, with the source naming the origin of
\* the token it sends; without configuration value and token file it reports
\* { configured: false, source: "none" }.
C11_BlankTokenNeverConfigured ==
    [][\A c \in Calls :
          /\ (StartsOperation(c) /\ calls'[c].pc = "await_token")
                => ~IsBlank(calls'[c].sent[1].cred[2])
          /\ StatusEnds(c) =>
                LET sent == getRefreshToken(env, file, FALSE) IN
                /\ (env = None /\ file = None)
                      => calls'[c].result = StatusResult(FALSE, "none")
                /\ ~sent.ok => calls'[c].result = StatusResult(FALSE, "none")
                /\ (sent.ok /\ env # None /\ sent.val = JsStr(env))
                      => calls'[c].result = StatusResult(TRUE, "env:DROPBOX_REFRESH_TOKEN")
                /\ (sent.ok /\ (env = None \/ sent.val # JsStr(env)))
                      => calls'[c].result = StatusResult(TRUE, "file:" \o TOKEN_FILE_PATH)
      ]_vars


\* ------------------------------------------------------------------------
\* Properties of overlapping exchanges
\* ------------------------------------------------------------------------
\* the invocation c is an exchange with save true or omitted that obtained a
\* refresh token and returned its result
SavedExchange(c) ==
    /\ calls[c].tool = "dropbox_auth_exchange_code"
    /\ calls[c].pc = "done"
    /\ calls[c].args.save # "false"
    /\ ~calls[c].result.isError

\* the refresh tokens those exchanges obtained
SavedTokens ==
    { ReturnedRefreshToken(calls[c])[2] : c \in { d \in Calls : SavedExchange(d) } }

\* C12: when exchanges with save true overlap, their responses handled in
\* any order, the token file and the configured token (DROPBOX_REFRESH_TOKEN)
\* never hold the tokens of two different such exchanges, and once all have
\* completed both hold, whole, the refresh token of the exchange whose
\* response was handled last.
C12_LastWriteWins ==
    /\ (env \in SavedTokens /\ file \in SavedTokens) => env = file
    /\ (\A c \in Calls : SavedExchange(c)) =>
          LET last == grants[Len(grants)] IN
          /\ file = ReturnedRefreshToken(calls[last])[2]
          /\ env = file

\* two saving exchanges overlapped, the response of the second was handled
\* first, and file and configuration hold the token of the first
C12_Witness ==
    /\ SavedExchange(1) /\ SavedExchange(2)
    /\ grants = <<2, 1>>
    /\ ReturnedRefreshToken(calls[2]) = JsStr(RefreshTokenNo(1))
    /\ ReturnedRefreshToken(calls[1]) = JsStr(<<32>> \o RefreshTokenNo(2) \o <<10>>)
    /\ file = <<32>> \o RefreshTokenNo(2) \o <<10>>
    /\ env = file


\* ------------------------------------------------------------------------
\* Properties of the configuration after an exchange
\* ------------------------------------------------------------------------
\* the exchange c returns its result, not an error, in this step
ExchangeSucceeds(c) ==
    ExchangeEnds(c) /\ ~calls'[c].result.isError

\* the result { refresh_token, saved: false } as the handler prints it
UnsavedResult(refreshToken) ==
    [isError |-> FALSE, escaped |-> FALSE,
     text |-> <<"JSON.stringify",
                <<"obj", << <<K_refresh_token, refreshToken>>,
                            <<K_saved, JsFalse>> >> >> >>]

\* C13, as stated: once an auth_exchange_code succeeded with refresh token
\* R, getRefreshToken returns R and auth_status reports the environment as
\* source, whatever save was and whatever configuration value and token file
\* held before, for as long as no other exchange succeeds; with save false
\* the token file is left as it was and the result says saved = false and
\* names no token file.
C13_ExchangeConfiguresProcess ==
    [][/\ \A c \in Calls : ExchangeSucceeds(c) =>
             LET R == ReturnedRefreshToken(calls'[c]) IN
             /\ env' = R[2]
             /\ getRefreshToken(env', file', FALSE) = Return(R)
             /\ dropbox_auth_status(env', file', FALSE).text
                  = StatusResult(TRUE, "env:DROPBOX_REFRESH_TOKEN").text
             /\ calls[c].args.save = "false" =>
                  /\ file' = file
                  /\ calls'[c].result = UnsavedResult(R)
       /\ env' # env => \E c \in Calls : ExchangeSucceeds(c)
      ]_vars


====
